---- MODULE Spec2Model ----
(***************************************************************************)
(* Crawl/download pipeline of yandex-images-crawler.                       *)
(*                                                                         *)
(* download() (download.py) starts one YandexCrawler process per start     *)
(* link and two ImageLoader processes per start link.  They share a        *)
(* bounded multiprocessing.Queue (load_queue) and the flag is_active.      *)
(* Every process is modelled by a program counter over the shared reads    *)
(* and writes of its run() loop.                                           *)
(*                                                                         *)
(* A queue item is the record the crawler builds from the current          *)
(* preview; tk is a history field numbering the puts, used to tell the     *)
(* items apart.  The batch call download(images, ...) of                   *)
(* ImageLoader.__download_images is modelled by what image_loader.py reads *)
(* from it: the number of entries that are not None.  The representation   *)
(* of an item (a tuple at the put, yandex_crawler.py:52, read through      *)
(* .link at the get, image_loader.py:50) and the signature of the batch    *)
(* call are below the level of the process model: a get yields the item   *)
(* that was put, and a batch of n items yields between 0 and n successes.  *)
(*                                                                         *)
(* The call into imgdl is modelled as written in a second part (DlSpec):   *)
(* download() / ImageDownloader.__call__ with one pipeline call            *)
(* (_download_image) per submitted future, and the loader's                *)
(* __download_images with the item it gets, the attribute it reads and the *)
(* keywords it passes.  A third part (ConvSpec) is convert_image.          *)
(***************************************************************************)
EXTENDS Integers, Sequences, FiniteSets, TLC

\* ---- bounds of the model ----
MaxTarget == 2
MaxChunk == 2
MaxGallery == 2
MaxPuts == 11
MaxPutsFair == 3
MaxBatch == 2

\* ---- program constants ----
NumLinks == 1
QueueFactor == 10
LoadersPerLink == 2

proc_num == NumLinks
Capacity == QueueFactor * proc_num

Crawlers == 1..proc_num
Loaders == 1..(proc_num * LoadersPerLink)
Tickets == 1..MaxPuts

NoItem == [src |-> 0, idx |-> 0, size |-> "none", tk |-> 0]

VARIABLES
    images_count,   \* ImageLoader.images_count (--count)
    chunk_size,     \* ImageLoader.chunk_size
    galleryLen,     \* number of previews reachable from each start link
    previews,       \* number of preview reads the pages serve before reads fail
    sizeless,       \* previews of each gallery that show no width x height text
    is_active,      \* shared Value("i", True)
    load_queue,     \* shared Queue(10 * proc_num)
    cpc,            \* position of each YandexCrawler in run()
    pos,            \* preview currently shown by each crawler's driver
    held,           \* item a crawler is about to put
    lpc,            \* position of each ImageLoader in run()
    total_downloaded_count,
    count,          \* argument of the running __download_images call
    need,           \* gets still to do in the running __download_images call
    final,          \* the running __download_images call is the drain call
    \* ---- history variables ----
    nextTk,         \* number of the next put
    taken,          \* taken[t]: how many gets returned the item of put t
    putCount,       \* puts completed by each crawler
    exhausted,      \* the crawler's advance failed for want of a next preview
    putsAfterExh,   \* puts completed by a crawler after exhausted
    seenStop,       \* the crawler has read is_active as False
    putsAfterStop,  \* puts completed by a crawler after seenStop
    setCount,       \* number of writes is_active.value = False
    readFailed,     \* history: the pass of run() just ended raised in __get_image_link
    \* ---- one batch call into imgdl ----
    d_pc,           \* "idle", "pool" (inside the executor block), "returned", "raised"
    d_caller,       \* "none", "api" (download() called directly), "loader"
    d_worker,       \* the loader that made the call (0: none)
    d_items,        \* items the loader took off the queue for the batch
    d_urls,         \* argument urls
    d_paths,        \* argument paths: [given |-> FALSE] is None
    d_force,        \* argument force
    d_error,        \* exception that ended the call ("none" when there is none)
    store,          \* keys that exist in the storage backend
    tasks,          \* the futures submitted to the executor
    downloaded,     \* DownloadingResult.downloaded under construction
    failed,         \* DownloadingResult.failed under construction
    \* ---- one call of convert_image ----
    img,            \* the image passed in
    converted       \* the image returned

cvars == <<cpc, pos, held, putCount, exhausted, putsAfterExh, seenStop, putsAfterStop,
           readFailed>>
lvars == <<lpc, total_downloaded_count, count, need, final>>
params == <<images_count, chunk_size, galleryLen, previews, sizeless>>
dvars == <<d_pc, d_caller, d_worker, d_items, d_urls, d_paths, d_force, d_error, store,
           tasks, downloaded, failed>>
imgvars == <<img, converted>>
imgdl == <<dvars, imgvars>>
vars == <<params, is_active, load_queue, cvars, lvars, nextTk, taken, setCount, imgdl>>

qsize == Len(load_queue)

\* ---- values of the imgdl state before any call ----
NoPaths == [given |-> FALSE, list |-> <<>>]
NoImage == [format |-> "none", mode |-> "none", colour |-> "none", alpha |-> "none"]

DlIdle ==
    /\ d_pc = "idle"
    /\ d_caller = "none"
    /\ d_worker = 0
    /\ d_items = <<>>
    /\ d_urls = <<>>
    /\ d_paths = NoPaths
    /\ d_force = FALSE
    /\ d_error = "none"
    /\ tasks = <<>>
    /\ downloaded = <<>>
    /\ failed = <<>>

ConvIdle == img = NoImage /\ converted = NoImage

\* the processes right after download() has constructed them
Workers ==
    /\ is_active = TRUE
    /\ cpc = [c \in Crawlers |-> "check"]
    /\ pos = [c \in Crawlers |-> 1]
    /\ held = [c \in Crawlers |-> NoItem]
    /\ lpc = [w \in Loaders |-> "check"]
    /\ total_downloaded_count = [w \in Loaders |-> 0]
    /\ count = [w \in Loaders |-> 0]
    /\ need = [w \in Loaders |-> 0]
    /\ final = [w \in Loaders |-> FALSE]
    /\ nextTk = 1
    /\ taken = [t \in Tickets |-> 0]
    /\ putCount = [c \in Crawlers |-> 0]
    /\ exhausted = [c \in Crawlers |-> FALSE]
    /\ putsAfterExh = [c \in Crawlers |-> 0]
    /\ seenStop = [c \in Crawlers |-> FALSE]
    /\ putsAfterStop = [c \in Crawlers |-> 0]
    /\ setCount = 0
    /\ readFailed = [c \in Crawlers |-> FALSE]

Start ==
    /\ images_count \in 0..MaxTarget
    /\ chunk_size \in 1..MaxChunk
    /\ galleryLen \in [Crawlers -> 1..MaxGallery]
    /\ Workers
    /\ load_queue = <<>>
    /\ DlIdle
    /\ store = {}
    /\ ConvIdle

\* every preview shows its size
AllSized == [c \in Crawlers |-> {}]

Init == Start /\ previews = MaxPuts /\ sizeless = AllSized

\* the same start with pages that serve fewer previews
InitFair == Start /\ previews = MaxPutsFair /\ sizeless = AllSized

\* the same start with any set of previews that show no size
InitCrawl ==
    /\ Start
    /\ previews = MaxPutsFair
    /\ sizeless \in [Crawlers -> SUBSET (1..MaxGallery)]

\* ------------------------------------------------------------------------
\* YandexCrawler.run
\* ------------------------------------------------------------------------

\* CrawlerCheck without the return: the driver is closed and the loop goes on
CrawlerCheckNoReturn(c) ==
    /\ cpc[c] = "check"
    /\ cpc' = [cpc EXCEPT ![c] = "read"]
    /\ seenStop' = [seenStop EXCEPT ![c] = @ \/ ~is_active]
    /\ readFailed' = [readFailed EXCEPT ![c] = FALSE]
    /\ UNCHANGED <<params, imgdl, is_active, load_queue, lvars, nextTk, taken, setCount,
                   pos, held, putCount, exhausted, putsAfterExh, putsAfterStop>>

\* if not self.is_active.value: self.driver.close(); return
CrawlerCheck(c) ==
    /\ cpc[c] = "check"
    /\ IF is_active
          THEN /\ cpc' = [cpc EXCEPT ![c] = "read"]
               /\ UNCHANGED seenStop
          ELSE /\ cpc' = [cpc EXCEPT ![c] = "done"]
               /\ seenStop' = [seenStop EXCEPT ![c] = TRUE]
    /\ readFailed' = [readFailed EXCEPT ![c] = FALSE]
    /\ UNCHANGED <<params, imgdl, is_active, load_queue, lvars, nextTk, taken, setCount,
                   pos, held, putCount, exhausted, putsAfterExh, putsAfterStop>>

\* width, height = None, None, then the two attempts to parse the size text
SizeOf(c) == IF pos[c] \in sizeless[c] THEN "unknown" ELSE "known"

\* CrawlerRead in which a failed read ends the crawler
CrawlerReadOrDie(c) ==
    /\ cpc[c] = "read"
    /\ \E found \in (IF nextTk <= previews THEN BOOLEAN ELSE {FALSE}) :
          IF found
             THEN /\ held' = [held EXCEPT ![c] =
                                [src |-> c, idx |-> pos[c], size |-> SizeOf(c), tk |-> 0]]
                  /\ cpc' = [cpc EXCEPT ![c] = "put"]
                  /\ UNCHANGED readFailed
             ELSE /\ cpc' = [cpc EXCEPT ![c] = "done"]
                  /\ readFailed' = [readFailed EXCEPT ![c] = TRUE]
                  /\ UNCHANGED held
    /\ UNCHANGED <<params, imgdl, is_active, load_queue, lvars, nextTk, taken, setCount,
                   pos, putCount, exhausted, putsAfterExh, seenStop, putsAfterStop>>

\* __get_image_link up to the put: the size text is parsed (None, None when
\* it is missing) and the preview's src is read; an exception of find_element
\* goes to run()'s handler, which logs, sleeps and loops.
\* The pages serve `previews` reads in all; after that every read fails.
CrawlerRead(c) ==
    /\ cpc[c] = "read"
    /\ \E found \in (IF nextTk <= previews THEN BOOLEAN ELSE {FALSE}) :
          IF found
             THEN /\ held' = [held EXCEPT ![c] =
                                [src |-> c, idx |-> pos[c], size |-> SizeOf(c), tk |-> 0]]
                  /\ cpc' = [cpc EXCEPT ![c] = "put"]
                  /\ UNCHANGED readFailed
             ELSE /\ cpc' = [cpc EXCEPT ![c] = "check"]
                  /\ readFailed' = [readFailed EXCEPT ![c] = TRUE]
                  /\ UNCHANGED held
    /\ UNCHANGED <<params, imgdl, is_active, load_queue, lvars, nextTk, taken, setCount,
                   pos, putCount, exhausted, putsAfterExh, seenStop, putsAfterStop>>

\* CrawlerPut on a queue that does not block when it is full
CrawlerPutNoBlock(c) ==
    /\ cpc[c] = "put"
    /\ load_queue' = Append(load_queue, [held[c] EXCEPT !.tk = nextTk])
    /\ nextTk' = nextTk + 1
    /\ held' = [held EXCEPT ![c] = NoItem]
    /\ putCount' = [putCount EXCEPT ![c] = @ + 1]
    /\ putsAfterExh' = [putsAfterExh EXCEPT ![c] = IF exhausted[c] THEN @ + 1 ELSE @]
    /\ putsAfterStop' = [putsAfterStop EXCEPT ![c] = IF seenStop[c] THEN @ + 1 ELSE @]
    /\ cpc' = [cpc EXCEPT ![c] = "next"]
    /\ UNCHANGED <<params, imgdl, is_active, lvars, taken, setCount, pos, exhausted, seenStop, readFailed>>

\* self.load_queue.put((link, (width, height))): blocks while the queue is full
CrawlerPut(c) ==
    /\ cpc[c] = "put"
    /\ qsize < Capacity
    /\ load_queue' = Append(load_queue, [held[c] EXCEPT !.tk = nextTk])
    /\ nextTk' = nextTk + 1
    /\ held' = [held EXCEPT ![c] = NoItem]
    /\ putCount' = [putCount EXCEPT ![c] = @ + 1]
    /\ putsAfterExh' = [putsAfterExh EXCEPT ![c] = IF exhausted[c] THEN @ + 1 ELSE @]
    /\ putsAfterStop' = [putsAfterStop EXCEPT ![c] = IF seenStop[c] THEN @ + 1 ELSE @]
    /\ cpc' = [cpc EXCEPT ![c] = "next"]
    /\ UNCHANGED <<params, imgdl, is_active, lvars, taken, setCount, pos, exhausted, seenStop, readFailed>>

\* __next_preview: click the next button; a failure is logged and swallowed
CrawlerNext(c) ==
    /\ cpc[c] = "next"
    /\ IF pos[c] < galleryLen[c]
          THEN /\ pos' = [pos EXCEPT ![c] = @ + 1]
               /\ UNCHANGED exhausted
          ELSE /\ exhausted' = [exhausted EXCEPT ![c] = TRUE]
               /\ UNCHANGED pos
    /\ cpc' = [cpc EXCEPT ![c] = "check"]
    /\ UNCHANGED <<params, imgdl, is_active, load_queue, lvars, nextTk, taken, setCount,
                   held, putCount, putsAfterExh, seenStop, putsAfterStop, readFailed>>

\* ------------------------------------------------------------------------
\* ImageLoader.run
\* ------------------------------------------------------------------------

\* if not self.is_active.value:
LoaderCheck(w) ==
    /\ lpc[w] = "check"
    /\ lpc' = [lpc EXCEPT ![w] = IF is_active THEN "chunk_q" ELSE "drain_q"]
    /\ UNCHANGED <<params, imgdl, is_active, load_queue, cvars, nextTk, taken, setCount,
                   total_downloaded_count, count, need, final>>

\* if self.load_queue.qsize() > 0:  ... else progress_bar.close(); return
LoaderDrainTest(w) ==
    /\ lpc[w] = "drain_q"
    /\ lpc' = [lpc EXCEPT ![w] = IF qsize > 0 THEN "drain_n" ELSE "done"]
    /\ UNCHANGED <<params, imgdl, is_active, load_queue, cvars, nextTk, taken, setCount,
                   total_downloaded_count, count, need, final>>

\* self.__download_images(self.load_queue.qsize()): the second qsize() read
LoaderDrainSize(w) ==
    /\ lpc[w] = "drain_n"
    /\ count' = [count EXCEPT ![w] = qsize]
    /\ need' = [need EXCEPT ![w] = qsize]
    /\ final' = [final EXCEPT ![w] = TRUE]
    /\ lpc' = [lpc EXCEPT ![w] = IF qsize > 0 THEN "get" ELSE "dl"]
    /\ UNCHANGED <<params, imgdl, is_active, load_queue, cvars, nextTk, taken, setCount,
                   total_downloaded_count>>

\* if self.load_queue.qsize() >= self.chunk_size: self.__download_images(chunk_size)
LoaderChunkTest(w) ==
    /\ lpc[w] = "chunk_q"
    /\ IF qsize >= chunk_size
          THEN /\ count' = [count EXCEPT ![w] = chunk_size]
               /\ need' = [need EXCEPT ![w] = chunk_size]
               /\ final' = [final EXCEPT ![w] = FALSE]
               /\ lpc' = [lpc EXCEPT ![w] = "get"]
          ELSE /\ lpc' = [lpc EXCEPT ![w] = "target"]
               /\ UNCHANGED <<count, need, final>>
    /\ UNCHANGED <<params, imgdl, is_active, load_queue, cvars, nextTk, taken, setCount,
                   total_downloaded_count>>

\* LoaderGet that reads the oldest item and leaves it in the queue
LoaderGetPeek(w) ==
    /\ lpc[w] = "get"
    /\ qsize > 0
    /\ taken' = [taken EXCEPT ![Head(load_queue).tk] = @ + 1]
    /\ need' = [need EXCEPT ![w] = @ - 1]
    /\ lpc' = [lpc EXCEPT ![w] = IF need[w] = 1 THEN "dl" ELSE "get"]
    /\ UNCHANGED <<params, imgdl, is_active, load_queue, cvars, nextTk, setCount,
                   total_downloaded_count, count, final>>

\* image = self.load_queue.get(): blocks while the queue is empty
LoaderGet(w) ==
    /\ lpc[w] = "get"
    /\ qsize > 0
    /\ load_queue' = Tail(load_queue)
    /\ taken' = [taken EXCEPT ![Head(load_queue).tk] = @ + 1]
    /\ need' = [need EXCEPT ![w] = @ - 1]
    /\ lpc' = [lpc EXCEPT ![w] = IF need[w] = 1 THEN "dl" ELSE "get"]
    /\ UNCHANGED <<params, imgdl, is_active, cvars, nextTk, setCount,
                   total_downloaded_count, count, final>>

\* paths = download(images, ...); downloaded_count = number of paths not None;
\* self.total_downloaded_count += downloaded_count
LoaderDownload(w) ==
    /\ lpc[w] = "dl"
    /\ \E downloaded_count \in 0..count[w] :
          total_downloaded_count' =
              [total_downloaded_count EXCEPT ![w] = @ + downloaded_count]
    /\ lpc' = [lpc EXCEPT ![w] = IF final[w] THEN "done" ELSE "target"]
    /\ UNCHANGED <<params, imgdl, is_active, load_queue, cvars, nextTk, taken, setCount,
                   count, need, final>>

\* LoaderTarget that stores the comparison into the flag on every pass
LoaderTargetAssign(w) ==
    /\ lpc[w] = "target"
    /\ is_active' = (total_downloaded_count[w] # images_count)
    /\ IF total_downloaded_count[w] = images_count
          THEN /\ setCount' = setCount + 1
               /\ lpc' = [lpc EXCEPT ![w] = "done"]
          ELSE /\ lpc' = [lpc EXCEPT ![w] = "check"]
               /\ UNCHANGED setCount
    /\ UNCHANGED <<params, imgdl, load_queue, cvars, nextTk, taken,
                   total_downloaded_count, count, need, final>>

\* LoaderTarget that goes on to drain the queue after setting the flag
LoaderTargetDrain(w) ==
    /\ lpc[w] = "target"
    /\ IF total_downloaded_count[w] = images_count
          THEN /\ is_active' = FALSE
               /\ setCount' = setCount + 1
               /\ lpc' = [lpc EXCEPT ![w] = "drain_q"]
          ELSE /\ lpc' = [lpc EXCEPT ![w] = "check"]
               /\ UNCHANGED <<is_active, setCount>>
    /\ UNCHANGED <<params, imgdl, load_queue, cvars, nextTk, taken,
                   total_downloaded_count, count, need, final>>

\* if self.total_downloaded_count == self.images_count:
\*     self.is_active.value = False; return
LoaderTarget(w) ==
    /\ lpc[w] = "target"
    /\ IF total_downloaded_count[w] = images_count
          THEN /\ is_active' = FALSE
               /\ setCount' = setCount + 1
               /\ lpc' = [lpc EXCEPT ![w] = "done"]
          ELSE /\ lpc' = [lpc EXCEPT ![w] = "check"]
               /\ UNCHANGED <<is_active, setCount>>
    /\ UNCHANGED <<params, imgdl, load_queue, cvars, nextTk, taken,
                   total_downloaded_count, count, need, final>>

Next ==
    \/ \E c \in Crawlers : CrawlerCheck(c)
    \/ \E c \in Crawlers : CrawlerRead(c)
    \/ \E c \in Crawlers : CrawlerPut(c)
    \/ \E c \in Crawlers : CrawlerNext(c)
    \/ \E w \in Loaders : LoaderCheck(w)
    \/ \E w \in Loaders : LoaderDrainTest(w)
    \/ \E w \in Loaders : LoaderDrainSize(w)
    \/ \E w \in Loaders : LoaderChunkTest(w)
    \/ \E w \in Loaders : LoaderGet(w)
    \/ \E w \in Loaders : LoaderDownload(w)
    \/ \E w \in Loaders : LoaderTarget(w)

Spec == Init /\ [][Next]_vars

\* Every crawler and every loader is an operating-system process of its own
\* (download.py:52-75): each keeps taking steps while it has one to take.
CrawlerStep(c) ==
    CrawlerCheck(c) \/ CrawlerRead(c) \/ CrawlerPut(c) \/ CrawlerNext(c)

LoaderStep(w) ==
    \/ LoaderCheck(w) \/ LoaderDrainTest(w) \/ LoaderDrainSize(w)
    \/ LoaderChunkTest(w) \/ LoaderGet(w) \/ LoaderDownload(w) \/ LoaderTarget(w)

\* the workers over galleries with previews that show no size
CrawlSpec == InitCrawl /\ [][Next]_vars

FairSpec ==
    /\ InitFair /\ [][Next]_vars
    /\ \A c \in Crawlers : WF_vars(CrawlerStep(c))
    /\ \A w \in Loaders : WF_vars(LoaderStep(w))

\* ------------------------------------------------------------------------
\* Properties
\* ------------------------------------------------------------------------

CrawlersDone == \A c \in Crawlers : cpc[c] = "done"
LoadersDone == \A w \in Loaders : lpc[w] = "done"
AllDone == CrawlersDone /\ LoadersDone

RECURSIVE SumTotals(_)
SumTotals(S) ==
    IF S = {} THEN 0
    ELSE LET w == CHOOSE x \in S : TRUE
         IN total_downloaded_count[w] + SumTotals(S \ {w})

C2_UnboundedNeverSets ==
    (images_count = 0 /\ ~(\A c \in Crawlers : exhausted[c]))
        => (setCount = 0 /\ is_active /\ \A w \in Loaders : lpc[w] # "done")

C6_StopsOnExhaustion ==
    \A c \in Crawlers : exhausted[c] => (cpc[c] = "done" /\ putsAfterExh[c] = 0)

\* C7: the queue never holds more than 10 * proc_num items; a put completes
\* only from a queue below capacity and appends exactly the held item; a
\* crawler whose put finds the queue full stays in put with its item.
C7_BoundedBlockingPut ==
    /\ [](qsize <= 10 * Cardinality(Crawlers))
    /\ [][\A c \in Crawlers :
            (cpc[c] = "put" /\ cpc'[c] # "put")
            => /\ qsize < 10 * Cardinality(Crawlers)
               /\ load_queue' = Append(load_queue, [held[c] EXCEPT !.tk = nextTk])]_vars
    /\ [][\A c \in Crawlers :
            (cpc[c] = "put" /\ qsize = 10 * Cardinality(Crawlers)
                /\ qsize' >= qsize)
            => (cpc'[c] = "put" /\ held'[c] = held[c])]_vars

\* a crawler waits in put, item in hand, on a queue at capacity
C7_Witness ==
    \E c \in Crawlers :
        cpc[c] = "put" /\ held[c] # NoItem /\ qsize = 10 * Cardinality(Crawlers)

C9_WriteOnce ==
    /\ is_active = TRUE
    /\ [][~is_active => ~is_active']_vars

\* the signal has been written a second time and is still unset
C9_Witness == setCount >= 2 /\ ~is_active

\* C10: a crawler that has read the signal as set has returned, holds no
\* item, and has put nothing since that read.
C10_NoPutAfterObservedStop ==
    \A c \in Crawlers :
        seenStop[c] => (cpc[c] = "done" /\ held[c] = NoItem /\ putsAfterStop[c] = 0)

\* a crawler that had enqueued items has read the signal as set and returned
C10_Witness ==
    \E c \in Crawlers : seenStop[c] /\ putCount[c] > 0 /\ cpc[c] = "done"

SeesUnset(w) ==
    \/ lpc[w] \in {"chunk_q", "target"}
    \/ lpc[w] \in {"get", "dl"} /\ ~final[w]

\* C18: with chunk_size 1 and a target above 0, the count of a loader that
\* last read the signal as unset is at most the target; and the step that
\* writes the signal is taken by a loader whose count equals the target,
\* which returns in that step and takes nothing from the queue.
C18_ExactAtChunkOne ==
    /\ []((chunk_size = 1 /\ images_count > 0)
            => \A w \in Loaders :
                  (SeesUnset(w) \/ lpc[w] = "check")
                      => total_downloaded_count[w] <= images_count)
    /\ [][(chunk_size = 1 /\ images_count > 0 /\ setCount' # setCount)
            => \E w \in Loaders :
                  /\ lpc[w] = "target" /\ lpc'[w] = "done"
                  /\ total_downloaded_count[w] = images_count
                  /\ load_queue' = load_queue]_vars

\* the loader that reached the target has returned and left items in the queue
C18_Witness ==
    /\ chunk_size = 1 /\ images_count > 1 /\ setCount = 1 /\ qsize > 0
    /\ \E w \in Loaders :
          lpc[w] = "done" /\ ~final[w] /\ total_downloaded_count[w] = images_count

\* the size recorded in an item is the one the preview shows
SizeRecorded(item) ==
    item.size = (IF item.idx \in sizeless[item.src] THEN "unknown" ELSE "known")

\* C17: the crawler survives extraction and navigation errors. A preview
\* without size text is still built into an item (its size unknown) and
\* enqueued; a read that raises enqueues nothing and leads back to the check
\* of the signal; the crawler returns only after reading the signal as set.
C17_CrawlerSurvives ==
    /\ [](\A c \in Crawlers : cpc[c] = "done" => seenStop[c])
    /\ [](\A i \in 1..Len(load_queue) : SizeRecorded(load_queue[i]))
    /\ [][\A c \in Crawlers :
            (cpc[c] = "read" /\ cpc'[c] # "read")
                => \/ /\ cpc'[c] = "put"
                      /\ held'[c].idx = pos[c]
                      /\ SizeRecorded(held'[c])
                   \/ /\ cpc'[c] = "check"
                      /\ readFailed'[c]
                      /\ load_queue' = load_queue
                      /\ putCount' = putCount]_vars
    /\ [][\A c \in Crawlers :
            (cpc[c] = "put" /\ cpc'[c] # "put")
                => /\ Len(load_queue') = Len(load_queue) + 1
                   /\ load_queue'[Len(load_queue')].idx = held[c].idx
                   /\ load_queue'[Len(load_queue')].size = held[c].size]_vars
    /\ [][\A c \in Crawlers :
            (cpc[c] = "next" /\ cpc'[c] # "next") => cpc'[c] = "check"]_vars

\* a read has just raised and the crawler is back at the check of the
\* signal, which is unset; an item of unknown size is in the queue
C17_Witness ==
    \E c \in Crawlers :
        /\ readFailed[c]
        /\ cpc[c] = "check"
        /\ is_active
        /\ ~seenStop[c]
        /\ \E i \in 1..Len(load_queue) :
              load_queue[i].src = c /\ load_queue[i].size = "unknown"

\* ======================================================================
\* imgdl: one batch call, download(urls, paths, ..., force) ->
\* ImageDownloader.__call__ -> _download_image per submitted future.
\* A url is the number of the preview it was read from; a storage key is
\* <<"given", n>> for a path passed by the caller and <<"auto", u>> for the
\* path the storage backend derives from url u; None is <<"none", 0>>.
\* ======================================================================
\* urls of a direct call: two, so that a batch can repeat one or mix them
Urls == {1, 2}
None == <<"none", 0>>
PathArgs == {None, <<"given", 1>>}
FilePath(u) == <<"auto", u>>
Keys == {FilePath(u) : u \in Urls} \cup (PathArgs \ {None})

SeqsUpTo(S, n) == UNION {[1..k -> S] : k \in 0..n}
Range(f) == {f[i] : i \in DOMAIN f}
Min(a, b) == IF a < b THEN a ELSE b

\* the item the crawler puts is a tuple (link, (width, height))
ItemShape == "tuple"
\* attribute access by name works on objects with named fields only
HasAttr(shape, a) == shape = "object" /\ a \in {"link", "size"}
\* keyword parameters of download()
DownloadParams ==
    {"urls", "paths", "store_path", "n_workers", "timeout", "min_wait", "max_wait",
     "session", "force"}
\* keywords of the call in ImageLoader.__download_images
LoaderKwargs == {"store_path", "verbose"}
\* DownloadingResult is a dataclass: it has no __iter__
ResultIterable == FALSE

\* steps of _download_image after the cache test, in program order
Steps == <<"get", "raise_for_status", "open", "convert_image", "save", "sleep">>
\* steps that can raise: HTTP failure, decode failure, storage failure
FailSteps == {"get", "raise_for_status", "open", "save"}
StepIndex(st) == CHOOSE k \in 1..Len(Steps) : Steps[k] = st

\* _download_image with the sleep ahead of the try block
PipelineSleepFirst(fail) ==
    IF fail = "none"
       THEN <<"sleep">> \o SubSeq(Steps, 1, Len(Steps) - 1)
       ELSE <<"sleep">> \o SubSeq(Steps, 1, StepIndex(fail) - 1)

\* the steps one run of the try block completes when step `fail` raises
\* ("none": no step raises)
Pipeline(fail) ==
    IF fail = "none" THEN Steps ELSE SubSeq(Steps, 1, StepIndex(fail) - 1)

\* the futures of the dict comprehension over zip(urls, paths)
Submit(urls, paths) ==
    LET ps == IF paths.given THEN paths.list ELSE [i \in 1..Len(urls) |-> None]
    IN  [i \in 1..Min(Len(urls), Len(ps)) |->
            [url |-> urls[i], path |-> ps[i], key |-> None, st |-> "queued",
             hit |-> FALSE, ev |-> <<>>, sawDone |-> {}]]

Finished(i) == tasks[i].st \in {"ok", "exc"}

procvars == <<params, is_active, cvars, lvars, nextTk, taken, setCount>>

\* download() called directly (no crawl running, nothing queued)
ApiCall ==
    /\ d_pc = "idle"
    /\ load_queue = <<>>
    /\ \E urls \in SeqsUpTo(Urls, MaxBatch), force \in BOOLEAN,
          paths \in {NoPaths} \cup
                    {[given |-> TRUE, list |-> l] : l \in SeqsUpTo(PathArgs, MaxBatch)} :
          /\ d_urls' = urls
          /\ d_paths' = paths
          /\ d_force' = force
          /\ tasks' = Submit(urls, paths)
    /\ d_caller' = "api"
    /\ d_pc' = "pool"
    /\ UNCHANGED <<procvars, load_queue, imgvars, d_worker, d_items, d_error, store,
                   downloaded, failed>>

\* ImageLoader.__download_images(count) as written: the gets, image.link,
\* the call download(images, store_path=..., verbose=False)
DownloadImages(w) ==
    /\ d_pc = "idle"
    /\ qsize > 0
    /\ d_caller' = "loader"
    /\ d_worker' = w
    /\ \E n \in 1..qsize :
          IF ~HasAttr(ItemShape, "link")
             THEN \* the first image.link raises AttributeError
                  /\ d_items' = <<Head(load_queue)>>
                  /\ load_queue' = Tail(load_queue)
                  /\ d_pc' = "raised"
                  /\ d_error' = "AttributeError"
                  /\ UNCHANGED <<d_urls, d_paths, d_force, tasks>>
             ELSE /\ d_items' = SubSeq(load_queue, 1, n)
                  /\ load_queue' = SubSeq(load_queue, n + 1, qsize)
                  /\ d_urls' = [i \in 1..n |-> load_queue[i].idx]
                  /\ IF LoaderKwargs \subseteq DownloadParams
                        THEN /\ d_pc' = "pool"
                             /\ tasks' = Submit(d_urls', NoPaths)
                             /\ UNCHANGED d_error
                        ELSE \* unexpected keyword argument
                             /\ d_pc' = "raised"
                             /\ d_error' = "TypeError"
                             /\ UNCHANGED tasks
                  /\ UNCHANGED <<d_paths, d_force>>
    /\ UNCHANGED <<procvars, imgvars, store, downloaded, failed>>

\* as_completed: the finished future is appended to downloaded or failed
Collected(t) ==
    IF t.st = "ok"
       THEN /\ downloaded' = Append(downloaded, t.key)
            /\ UNCHANGED failed
       ELSE /\ failed' = Append(failed, t.url)
            /\ UNCHANGED downloaded

\* TaskStart that goes on to fetch whatever the storage holds
TaskStartNoCache(i) ==
    /\ d_pc = "pool"
    /\ i \in DOMAIN tasks
    /\ tasks[i].st = "queued"
    /\ LET key == IF tasks[i].path # None THEN tasks[i].path ELSE FilePath(tasks[i].url)
           seen == {j \in DOMAIN tasks : Finished(j)}
       IN  /\ tasks' = [tasks EXCEPT ![i] =
                          [@ EXCEPT !.key = key, !.st = "running", !.sawDone = seen]]
           /\ UNCHANGED <<downloaded, failed>>
    /\ UNCHANGED <<procvars, load_queue, imgvars, d_pc, d_caller, d_worker, d_items,
                   d_urls, d_paths, d_force, d_error, store>>

\* a pool thread enters _download_image: path = path or get_filepath(url),
\* then the test storage.exists(path) and not force, which returns the path
TaskStart(i) ==
    /\ d_pc = "pool"
    /\ i \in DOMAIN tasks
    /\ tasks[i].st = "queued"
    /\ LET key == IF tasks[i].path # None THEN tasks[i].path ELSE FilePath(tasks[i].url)
           seen == {j \in DOMAIN tasks : Finished(j)}
       IN  IF key \in store /\ ~d_force
              THEN /\ tasks' = [tasks EXCEPT ![i] =
                                  [@ EXCEPT !.key = key, !.st = "ok", !.hit = TRUE,
                                            !.sawDone = seen]]
                   /\ Collected(tasks'[i])
              ELSE /\ tasks' = [tasks EXCEPT ![i] =
                                  [@ EXCEPT !.key = key, !.st = "running",
                                            !.sawDone = seen]]
                   /\ UNCHANGED <<downloaded, failed>>
    /\ UNCHANGED <<procvars, load_queue, imgvars, d_pc, d_caller, d_worker, d_items,
                   d_urls, d_paths, d_force, d_error, store>>

\* the try block of _download_image: fetch, decode, convert, save, sleep;
\* an exception is re-raised and becomes the future's exception
TaskFinish(i) ==
    /\ d_pc = "pool"
    /\ i \in DOMAIN tasks
    /\ tasks[i].st = "running"
    /\ \E fail \in {"none"} \cup FailSteps :
          /\ tasks' = [tasks EXCEPT ![i] =
                         [@ EXCEPT !.ev = Pipeline(fail),
                                   !.st = IF fail = "none" THEN "ok" ELSE "exc"]]
          /\ store' = IF "save" \in Range(Pipeline(fail))
                         THEN store \cup {tasks[i].key} ELSE store
    /\ Collected(tasks'[i])
    /\ UNCHANGED <<procvars, load_queue, imgvars, d_pc, d_caller, d_worker, d_items,
                   d_urls, d_paths, d_force, d_error>>

\* the executor block ends and __call__ returns the DownloadingResult; the
\* loader then counts len([path for path in paths if path is not None])
Return ==
    /\ d_pc = "pool"
    /\ \A i \in DOMAIN tasks : Finished(i)
    /\ IF d_caller = "loader"
          THEN IF ResultIterable
                  THEN /\ total_downloaded_count' =
                             [total_downloaded_count EXCEPT ![d_worker] =
                                 @ + Len(downloaded)]
                       /\ d_pc' = "returned"
                       /\ UNCHANGED d_error
                  ELSE /\ d_pc' = "raised"
                       /\ d_error' = "TypeError"
                       /\ UNCHANGED total_downloaded_count
          ELSE /\ d_pc' = "returned"
               /\ UNCHANGED <<d_error, total_downloaded_count>>
    /\ UNCHANGED <<params, is_active, load_queue, cvars, lpc, count, need, final,
                   nextTk, taken, setCount, imgvars, d_caller, d_worker, d_items,
                   d_urls, d_paths, d_force, store, tasks, downloaded, failed>>

\* items a crawler can have put
QueueItems ==
    {[src |-> c, idx |-> i, size |-> z, tk |-> 0] :
        c \in Crawlers, i \in 1..MaxGallery, z \in {"known", "unknown"}}

InitDl ==
    /\ images_count = MaxTarget
    /\ chunk_size = 1
    /\ galleryLen = [c \in Crawlers |-> MaxGallery]
    /\ previews = MaxPuts
    /\ sizeless = AllSized
    /\ Workers
    /\ load_queue \in SeqsUpTo(QueueItems, MaxBatch)
    /\ DlIdle
    /\ store \in {{}} \cup {{k} : k \in Keys}
    /\ ConvIdle

DlNext ==
    \/ ApiCall
    \/ \E w \in Loaders : DownloadImages(w)
    \/ \E i \in 1..MaxBatch : TaskStart(i)
    \/ \E i \in 1..MaxBatch : TaskFinish(i)
    \/ Return

DlSpec == InitDl /\ [][DlNext]_vars

\* C11: after the batch call returns, every submitted URL is accounted for
\* once, in downloaded or in failed: the two lists together are as long as
\* the URL list, for any URL list and any paths argument.
C11_EveryUrlResolvedOnce ==
    (d_pc = "returned" /\ d_caller = "api")
        => Len(downloaded) + Len(failed) = Len(d_urls)

\* pipeline call j entered _download_image after call i had ended, for the
\* same url and the same path argument
RunsAgain(i, j) ==
    /\ i # j
    /\ i \in tasks[j].sawDone
    /\ tasks[i].url = tasks[j].url
    /\ tasks[i].path = tasks[j].path

\* C12: when the pipeline runs a second time for the same URL and
\* destination with force disabled after a first run that succeeded, the
\* second run fetches nothing, saves nothing and returns the same path.
C12_Idempotent ==
    \A i, j \in DOMAIN tasks :
        (RunsAgain(i, j) /\ tasks[i].st = "ok" /\ ~d_force)
            => /\ tasks[j].hit
               /\ tasks[j].st = "ok"
               /\ tasks[j].ev = <<>>
               /\ tasks[j].key = tasks[i].key

\* a first run that fetched and saved, then a second run of the same url
\* and destination that was a cache hit
C12_Witness ==
    /\ d_pc = "returned"
    /\ \E i, j \in DOMAIN tasks :
          /\ RunsAgain(i, j)
          /\ ~d_force
          /\ ~tasks[i].hit /\ tasks[i].st = "ok" /\ "get" \in Range(tasks[i].ev)
          /\ tasks[j].hit

\* C13: a batch of the loader never ends in an exception, whatever its
\* items do: the call returns and the loader's count has grown by the number
\* of items that succeeded.
C13_FailuresDoNotAbort ==
    d_caller = "loader"
        => /\ d_pc # "raised"
           /\ d_pc = "returned"
                 => total_downloaded_count[d_worker] = Len(downloaded)

Slept(t) == "sleep" \in Range(t.ev)

\* C15: a pipeline call reaches the sleep exactly when fetch, decode,
\* convert and save all succeeded, and then after the save; never on a cache
\* hit and never when a step failed.
C15_SleepOnFreshSuccess ==
    \A i \in DOMAIN tasks :
        Finished(i) =>
            LET t == tasks[i] IN
            /\ Slept(t) <=>
                  /\ t.st = "ok"
                  /\ ~t.hit
                  /\ {"get", "raise_for_status", "open", "convert_image", "save"}
                        \subseteq Range(t.ev)
            /\ Slept(t) =>
                  /\ \E a, b \in DOMAIN t.ev :
                        a < b /\ t.ev[a] = "save" /\ t.ev[b] = "sleep"
                  /\ t.key \in store
            /\ t.hit => ~Slept(t)
            /\ t.st = "exc" => ~Slept(t)

\* a returned batch with a fresh download that slept, a cache hit and
\* nothing else, or a fresh download and a failure
C15_Witness ==
    /\ d_pc = "returned"
    /\ \E i, j \in DOMAIN tasks :
          /\ Slept(tasks[i])
          /\ tasks[j].st = "exc" \/ tasks[j].hit

\* C19: a loader's batch over an item whose destination key exists in the
\* storage counts that item: after the batch the loader's count is at least
\* one.
C19_CacheHitCounts ==
    (/\ d_caller = "loader"
     /\ d_pc \in {"returned", "raised"}
     /\ \E k \in DOMAIN d_items : FilePath(d_items[k].idx) \in store)
        => total_downloaded_count[d_worker] >= 1

\* ======================================================================
\* ImageDownloader.convert_image.  An image is its container format, its
\* colour mode and one pixel: the colour stored for it and its opacity
\* (modes without transparency are opaque).
\* ======================================================================
\* modes Image.open yields for each container format
OpenModes ==
    [PNG  |-> {"1", "L", "LA", "P", "RGB", "RGBA"},
     JPEG |-> {"L", "RGB", "CMYK"},
     GIF  |-> {"L", "P"},
     WEBP |-> {"RGB", "RGBA"},
     TIFF |-> {"1", "L", "LA", "P", "RGB", "RGBA", "CMYK"}]
Formats == DOMAIN OpenModes
Colours == {"black", "grey", "white"}

\* modes with an alpha band
HasAlpha(mode) == mode \in {"LA", "RGBA"}
\* modes whose pixels can be transparent (a palette can mark an index so)
Opacities(mode) ==
    IF HasAlpha(mode) \/ mode = "P" THEN {"transparent", "opaque"} ELSE {"opaque"}

Images ==
    {[format |-> f, mode |-> m, colour |-> c, alpha |-> a] :
        f \in Formats, m \in {"1", "L", "LA", "P", "RGB", "RGBA", "CMYK"},
        c \in Colours, a \in {"transparent", "opaque"}}

\* the images Image.open can return
Opened == {i \in Images : i.mode \in OpenModes[i.format] /\ i.alpha \in Opacities(i.mode)}

\* Image.convert(mode): a new image (no container format) whose bands are
\* those of the mode; an alpha band that is dropped is dropped as it is,
\* the colour bands are kept
Convert(i, mode) ==
    [format |-> "none", mode |-> mode, colour |-> i.colour,
     alpha |-> IF HasAlpha(mode) THEN i.alpha ELSE "opaque"]

\* background = Image.new("RGBA", size, (255, 255, 255)); background.paste(i, i)
PasteOnWhite(i) ==
    [format |-> "none", mode |-> "RGBA",
     colour |-> IF i.alpha = "transparent" THEN "white" ELSE i.colour,
     alpha |-> "opaque"]

convert_image(i) ==
    IF i.format = "PNG" /\ i.mode = "RGBA"
       THEN Convert(PasteOnWhite(i), "RGB")
       ELSE IF i.mode = "P"
               THEN Convert(PasteOnWhite(Convert(i, "RGBA")), "RGB")
               ELSE IF i.mode # "RGB" THEN Convert(i, "RGB") ELSE i

\* one call of convert_image on an opened image
ConvertImage ==
    /\ img # NoImage
    /\ converted = NoImage
    /\ converted' = convert_image(img)
    /\ UNCHANGED <<procvars, load_queue, dvars, img>>

InitConv ==
    /\ images_count = MaxTarget
    /\ chunk_size = 1
    /\ galleryLen = [c \in Crawlers |-> MaxGallery]
    /\ previews = MaxPuts
    /\ sizeless = AllSized
    /\ Workers
    /\ load_queue = <<>>
    /\ DlIdle
    /\ store = {}
    /\ img \in Opened
    /\ converted = NoImage

ConvSpec == InitConv /\ [][ConvertImage]_vars

\* C16: whatever image is passed in, the result is in mode RGB; an image
\* that is paletted or has an alpha band comes out as it looks on a white
\* background; an image in mode RGB comes out unchanged.
C16_DecisionTable ==
    converted # NoImage =>
        /\ converted.mode = "RGB"
        /\ (img.mode = "P" \/ HasAlpha(img.mode))
              => converted.colour =
                    (IF img.alpha = "transparent" THEN "white" ELSE img.colour)
        /\ img.mode = "RGB" => converted = img
====
